---- MODULE Spec2Model ----
(***************************************************************************)
(* Reachy Mini Countdown: the Run Loop of ReachyMiniCountdown.run, the     *)
(* celebration routine and the Control Surface handlers that share         *)
(* control_state and countdown_state with it                               *)
(* (src/reachy_mini_countdown/main.py).                                    *)
(*                                                                         *)
(* Time is counted in half seconds: timedelta(seconds=s) is 2*s and        *)
(* int(remaining) is remaining \div 2.  A datetime is held as its distance *)
(* from the present, datetime.now() - that is what every use of one in the *)
(* code computes - so now() is 0 and the passing of e half seconds         *)
(* subtracts e from the datetimes the code still reads: target while       *)
(* counting, start during the dance, the target override and the next      *)
(* midnight when the loop runs without the shared records.                 *)
(* The Run Loop and the Flask handler thread interleave at every read and  *)
(* write of a shared field; the clock advances where the code sleeps or    *)
(* blocks on the Pose Sink.                                                *)
(***************************************************************************)
EXTENDS Integers, Sequences, FiniteSets, TLC

\* ------------------------------------------------------------------ bounds
\* one countdown is followed for at most MaxElapsed half seconds
MaxElapsed == 24
\* the 30 s countdown armed by a reset is followed for at most MaxRearmed half
\* seconds, past its entry to FinalTen
MaxRearmed == 42
\* datetimes more than MaxPast half seconds back are not told apart
MaxPast == 12
\* number of start/stop/reset requests the Control Surface issues
MaxReq == 2
\* extra half seconds a sleep may take beyond its nominal duration
Jitter == 1

\* ------------------------------------------------------------------ inputs
\* seconds payloads of /control/start
SecondsChoices == {-5, 0, 3, 12, 61}
\* a seconds payload that is no number (JSON null, a string), written as an
\* integer that no request carries as a duration
NotANumber == -1000
\* what data.get('seconds', 30) may return, line 1185
PayloadChoices == SecondsChoices \cup {NotANumber}
\* secrets tried on /easter-egg/<secret>
SecretChoices == {"konami", "KONAMI", "nope"}
\* --celebration-seconds
CelebrationChoices == {0, 1}
\* target passed to the constructor (--test-seconds or --target under main):
\* <<>> is None, <<t>> is a datetime t half seconds after launch
OverrideChoices == {<<>>, <<8>>}
\* the class attribute of line 31, which main stores in
\* control_state['youtube_url'] (line 1353)
AULD_LANG_SYNE_URL == "https://www.youtube.com/watch?v=Al7ONqrdscY&t=3s"
\* the 'url' of a /control/music payload: absent or null, an empty string, a
\* string, a number
UrlChoices == {[kind |-> "null", text |-> ""], [kind |-> "str", text |-> ""],
               [kind |-> "str", text |-> "https://youtu.be/custom"],
               [kind |-> "int", text |-> "42"]}

VARIABLES
    \* shared records (main)
    control_state,      \* [action, seconds, running, easter_egg, ...]
    countdown_state,    \* [remaining, target]
    stop_event,         \* threading.Event
    \* constructor arguments / attributes set by main
    has_state,          \* _control_state and _countdown_state were set
    once,               \* self._once
    celebration_duration, \* self.CELEBRATION_DURATION, in seconds
    target_override,    \* self._target_override
    midnight,           \* the next midnight
    \* Run Loop
    pc,                 \* position of the Run Loop
    wait,               \* which AwaitingStart loop it polls in
    seconds,            \* local: value read from control_state['seconds']
    target,             \* local: target
    remaining,          \* local: remaining
    last_spoken,        \* self._last_spoken
    easter_egg,         \* local of _celebrate
    start,              \* local of _celebrate
    beat,               \* local of _celebrate
    audio_url,          \* local of _celebrate, '' before line 474
    i,                  \* loop counter of the range() loops
    pose,               \* last command sent to the Pose Sink
    audio,              \* last command sent to the Audio Sink
    exc,                \* exception that ended the session, "none" if none
    \* Control Surface handler thread
    hpc,                \* position of the handler in flight
    h_seconds,          \* local seconds of start_countdown
    response,           \* the answer of /countdown, <<>> before any
    \* history
    nreq,               \* start/stop/reset requests issued so far
    unread,             \* the mailbox was written after the Run Loop last read it
    acted,              \* the Run Loop has acted on the value in the mailbox
    armed,              \* how the current target was armed
    elapsed,            \* time since the target was armed
    sub_state,          \* branch taken by the latest tick of this countdown
    spoken,             \* per n: side effects triggered in this countdown
    sampled,            \* integers sampled by FinalTen ticks in this countdown
    last_pub,           \* remaining published by the previous tick
    stop_in_counting,   \* the pending stop was written while Counting
    trigger             \* easter egg triggered, no celebration begun since

vars == <<control_state, countdown_state, stop_event, has_state, once,
          celebration_duration, target_override, midnight, pc, wait,
          seconds, target, remaining, last_spoken, easter_egg, start, beat,
          audio_url, i, pose, audio, exc, hpc, h_seconds, response, nreq,
          unread, acted, armed, elapsed, sub_state, spoken, sampled,
          last_pub, stop_in_counting, trigger>>

\* ----------------------------------------------------------------- helpers
\* timedelta(seconds=s) on the half-second clock
timedelta(s) == 2 * s

\* int(remaining): whole seconds, truncated towards zero
int(r) == IF r >= 0 THEN r \div 2 ELSE -((-r) \div 2)

\* str(target) as stored in countdown_state['target']; '' is <<>>.  The text
\* of a datetime does not change as time passes: it is written as the distance
\* of the datetime from the instant the countdown was armed
str(t) == <<"datetime", t + elapsed>>

\* secret.lower()
lower(s) == IF s = "KONAMI" THEN "konami" ELSE s

\* one day on the half-second clock
Day == timedelta(24 * 3600)

\* half seconds from launch to the next midnight
MidnightChoices == {6, Day}

\* datetime.now(), the origin of the clock
now == 0

\* a datetime t after e more half seconds
Age(t, e) == IF t - e < -MaxPast THEN -MaxPast ELSE t - e

\* e half seconds pass: the datetimes kept outside a countdown grow older,
\* and past midnight the next midnight is a day later; the next midnight is
\* followed only where run reads it (no shared records, no target override);
\* with the shared records run never reads the target override (lines 93 and
\* 157 are not reached) and it is kept as given at launch
Pass(e) ==
    /\ target_override' = IF target_override = <<>> \/ has_state
                          THEN target_override
                          ELSE <<Age(target_override[1], e)>>
    /\ midnight' = IF has_state \/ target_override # <<>> THEN midnight
                   ELSE IF midnight - e <= 0 THEN midnight - e + Day
                   ELSE midnight - e

\* time.sleep(d) outside a countdown: the clock moves on by d or a little more
Sleep(d) == \E e \in d..(d + Jitter) : Pass(e)

\* how long the countdown in progress is followed
Followed == IF armed = "reset" THEN MaxRearmed ELSE MaxElapsed

\* TickSleep with the clock running backwards (not used by Next)
TickSleep_backwards(d) ==
    \E e \in d..(d + Jitter) :
        /\ elapsed + e <= Followed
        /\ elapsed' = elapsed + e
        /\ target' = target + e
        /\ Pass(e)

\* time.sleep(d) at the end of a Counting tick: target comes e closer
TickSleep(d) ==
    \E e \in d..(d + Jitter) :
        /\ elapsed + e <= Followed
        /\ elapsed' = elapsed + e
        /\ target' = target - e
        /\ Pass(e)

\* a blocking Pose Sink sequence of nominal duration d
Elapse(d) == Pass(d)

\* _get_next_midnight
NextMidnight == midnight

NoCount == [n \in 1..10 |-> 0]

\* a new target was armed: the history of the countdown starts again
Rearm(by) ==
    /\ armed' = by
    /\ elapsed' = 0
    /\ sub_state' = "none"
    /\ spoken' = NoCount
    /\ sampled' = {}
    /\ last_pub' = <<>>

\* the countdown is over: its history is dropped
Disarm == Rearm("none")

\* a Control Surface handler writes the mailbox
Written ==
    /\ unread' = TRUE
    /\ acted' = FALSE

\* the Run Loop reads the mailbox and takes the branch of the value it holds
React ==
    /\ unread' = FALSE
    /\ acted' = TRUE

\* the Run Loop stores None in the mailbox
Clear ==
    /\ control_state' = [control_state EXCEPT !.action = "None"]

\* positions at which the Run Loop is in Counting (Idle, FinalMinute, FinalTen)
CountingPcs == {"tick", "tick_reset", "rearm_clear", "rearm_running",
                "rearm_remaining", "compute", "publish", "final_ten",
                "final_minute", "idle"}
\* positions inside one of the three AwaitingStart loops
AwaitingPcs == {"await_poll", "start_seconds", "start_clear", "start_running",
                "reset_clear", "reset_running", "reset_remaining",
                "await_sleep"}
\* positions at which the Run Loop handles an action it has read
HandlingPcs == {"start_seconds", "start_clear", "start_running",
                "reset_clear", "reset_running", "reset_remaining",
                "stop_clear", "stop_running", "stop_pose",
                "rearm_clear", "rearm_running", "rearm_remaining"}
\* positions at which the session is over: run has returned ("done"), an
\* exception is on its way to main's handlers ("main_except"), has left the
\* process ("raised"), or main has returned after a keyboard interrupt
EndedPcs == {"done", "main_except", "raised", "interrupted"}
\* positions inside _celebrate
CelebratingPcs == {"egg_spin", "egg_pose", "egg_clear", "spin", "victory",
                   "beat", "stop_audio", "celebrated"}

\* an exception of the given kind leaves run, or main's session before run:
\* the frames of run and _celebrate are gone and the shared records are no
\* longer served.  Under main it reaches the handlers of lines 1384-1389;
\* run called without main lets it through to its caller
Raise(kind) ==
    /\ exc' = kind
    /\ pc' = IF has_state THEN "main_except" ELSE "raised"
    /\ control_state' = [action |-> "None", seconds |-> 30,
                         running |-> FALSE, easter_egg |-> FALSE,
                         speak_intervals |-> FALSE,
                         youtube_url |-> AULD_LANG_SYNE_URL]
    /\ countdown_state' = [remaining |-> 0, target |-> <<>>]
    /\ target_override' = <<>> /\ midnight' = Day
    /\ wait' = "initial" /\ seconds' = 0 /\ target' = 0 /\ remaining' = 0
    /\ last_spoken' = -1 /\ easter_egg' = FALSE /\ start' = 0 /\ beat' = 0
    /\ audio_url' = ""
    /\ i' = 0 /\ pose' = "none" /\ audio' = "none"
    /\ hpc' = "idle" /\ h_seconds' = 0 /\ nreq' = 0
    /\ unread' = FALSE /\ acted' = FALSE
    /\ Disarm
    /\ stop_in_counting' = FALSE /\ trigger' = FALSE

\* ---------------------------------------------------------------- initial
Init ==
    /\ control_state = [action |-> "None", seconds |-> 30, running |-> FALSE,
                        easter_egg |-> FALSE, speak_intervals |-> FALSE,
                        youtube_url |-> AULD_LANG_SYNE_URL]
    /\ countdown_state = [remaining |-> 0, target |-> <<>>]
    /\ stop_event = FALSE
    /\ has_state \in BOOLEAN
    /\ once \in BOOLEAN
    /\ celebration_duration \in CelebrationChoices
    \* launches of main with a target are those with --once and
    \* --celebration-seconds 0
    /\ target_override \in (IF has_state /\ ~(once /\ celebration_duration = 0)
                            THEN {<<>>} ELSE OverrideChoices)
    /\ midnight \in (IF has_state \/ target_override # <<>> THEN {Day}
                     ELSE MidnightChoices)
    /\ pc = IF has_state THEN "main" ELSE "run"
    /\ wait = "initial"
    /\ seconds = 0
    /\ target = 0
    /\ remaining = 0
    /\ last_spoken = -1
    /\ easter_egg = FALSE
    /\ start = 0
    /\ beat = 0
    /\ audio_url = ""
    /\ i = 0
    /\ pose = "none"
    /\ audio = "none"
    /\ exc = "none"
    /\ hpc = "idle"
    /\ h_seconds = 0
    /\ response = <<>>
    /\ nreq = 0
    /\ unread = FALSE
    /\ acted = FALSE
    /\ armed = "none"
    /\ elapsed = 0
    /\ sub_state = "none"
    /\ spoken = NoCount
    /\ sampled = {}
    /\ last_pub = <<>>
    /\ stop_in_counting = FALSE
    /\ trigger = FALSE

\* ------------------------------------------------- Control Surface handlers
\* main starts the Flask thread (a daemon) only with the shared records, and
\* the thread ends with the process when run returns
Serving == has_state /\ pc \notin EndedPcs \cup {"main"}

\* /control/start: control_state['action'] = 'start'
start_countdown(s) ==
    /\ Serving /\ hpc = "idle" /\ nreq < MaxReq
    /\ control_state' = [control_state EXCEPT !.action = "start"]
    /\ h_seconds' = s
    /\ hpc' = "start_seconds"
    /\ nreq' = nreq + 1
    /\ Written
    /\ stop_in_counting' = FALSE
    /\ UNCHANGED <<countdown_state, stop_event, has_state, once,
                   celebration_duration, target_override, midnight, pc,
                   wait, seconds, target, remaining, last_spoken,
                   easter_egg, start, beat, audio_url, i, pose, audio, exc,
                   response, armed, elapsed, sub_state, spoken, sampled,
                   last_pub, trigger>>

\* /control/start: control_state['seconds'] = seconds
start_countdown_seconds ==
    /\ Serving /\ hpc = "start_seconds"
    /\ control_state' = [control_state EXCEPT !.seconds = h_seconds]
    /\ h_seconds' = 0
    /\ hpc' = "start_running"
    /\ UNCHANGED <<countdown_state, stop_event, has_state, once,
                   celebration_duration, target_override, midnight, pc,
                   wait, seconds, target, remaining, last_spoken,
                   easter_egg, start, beat, audio_url, i, pose, audio, exc,
                   response, nreq, unread, acted, armed, elapsed, sub_state,
                   spoken, sampled, last_pub, stop_in_counting, trigger>>

\* start_countdown_running flipping the flag instead of storing True (not
\* used by Next)
start_countdown_running_toggles ==
    /\ Serving /\ hpc = "start_running"
    /\ control_state' = [control_state EXCEPT !.running = ~@]
    /\ hpc' = "idle"
    /\ UNCHANGED <<countdown_state, stop_event, has_state, once,
                   celebration_duration, target_override, midnight, pc,
                   wait, seconds, target, remaining, last_spoken,
                   easter_egg, start, beat, audio_url, i, pose, audio, exc,
                   h_seconds, response, nreq, unread, acted, armed, elapsed,
                   sub_state, spoken, sampled, last_pub, stop_in_counting,
                   trigger>>

\* /control/start: control_state['running'] = True
start_countdown_running ==
    /\ Serving /\ hpc = "start_running"
    /\ control_state' = [control_state EXCEPT !.running = TRUE]
    /\ hpc' = "idle"
    /\ UNCHANGED <<countdown_state, stop_event, has_state, once,
                   celebration_duration, target_override, midnight, pc,
                   wait, seconds, target, remaining, last_spoken,
                   easter_egg, start, beat, audio_url, i, pose, audio, exc,
                   h_seconds, response, nreq, unread, acted, armed, elapsed,
                   sub_state, spoken, sampled, last_pub, stop_in_counting,
                   trigger>>

\* /control/speak-intervals: control_state['speak_intervals'] = enabled
set_speak_intervals(enabled) ==
    /\ Serving /\ hpc = "idle" /\ nreq < MaxReq
    /\ control_state' = [control_state EXCEPT !.speak_intervals = enabled]
    /\ nreq' = nreq + 1
    /\ UNCHANGED <<countdown_state, stop_event, has_state, once,
                   celebration_duration, target_override, midnight, pc,
                   wait, seconds, target, remaining, last_spoken,
                   easter_egg, start, beat, audio_url, i, pose, audio, exc,
                   hpc, h_seconds, response, unread, acted, armed, elapsed,
                   sub_state, spoken, sampled, last_pub, stop_in_counting,
                   trigger>>

\* /control/stop: control_state['action'] = 'stop'
stop_countdown ==
    /\ Serving /\ hpc = "idle" /\ nreq < MaxReq
    /\ control_state' = [control_state EXCEPT !.action = "stop"]
    /\ hpc' = "stop_running"
    /\ nreq' = nreq + 1
    /\ Written
    /\ stop_in_counting' = (pc \in CountingPcs)
    /\ UNCHANGED <<countdown_state, stop_event, has_state, once,
                   celebration_duration, target_override, midnight, pc,
                   wait, seconds, target, remaining, last_spoken,
                   easter_egg, start, beat, audio_url, i, pose, audio, exc,
                   h_seconds, response, armed, elapsed, sub_state, spoken,
                   sampled, last_pub, trigger>>

\* /control/stop: control_state['running'] = False
stop_countdown_running ==
    /\ Serving /\ hpc = "stop_running"
    /\ control_state' = [control_state EXCEPT !.running = FALSE]
    /\ hpc' = "idle"
    /\ UNCHANGED <<countdown_state, stop_event, has_state, once,
                   celebration_duration, target_override, midnight, pc,
                   wait, seconds, target, remaining, last_spoken,
                   easter_egg, start, beat, audio_url, i, pose, audio, exc,
                   h_seconds, response, nreq, unread, acted, armed, elapsed,
                   sub_state, spoken, sampled, last_pub, stop_in_counting,
                   trigger>>

\* /control/reset: control_state['action'] = 'reset'
reset_countdown ==
    /\ Serving /\ hpc = "idle" /\ nreq < MaxReq
    /\ control_state' = [control_state EXCEPT !.action = "reset"]
    /\ hpc' = "reset_running"
    /\ nreq' = nreq + 1
    /\ Written
    /\ stop_in_counting' = FALSE
    /\ UNCHANGED <<countdown_state, stop_event, has_state, once,
                   celebration_duration, target_override, midnight, pc,
                   wait, seconds, target, remaining, last_spoken,
                   easter_egg, start, beat, audio_url, i, pose, audio, exc,
                   h_seconds, response, armed, elapsed, sub_state, spoken,
                   sampled, last_pub, trigger>>

\* /control/reset: control_state['running'] = False
reset_countdown_running ==
    /\ Serving /\ hpc = "reset_running"
    /\ control_state' = [control_state EXCEPT !.running = FALSE]
    /\ hpc' = "reset_remaining"
    /\ UNCHANGED <<countdown_state, stop_event, has_state, once,
                   celebration_duration, target_override, midnight, pc,
                   wait, seconds, target, remaining, last_spoken,
                   easter_egg, start, beat, audio_url, i, pose, audio, exc,
                   h_seconds, response, nreq, unread, acted, armed, elapsed,
                   sub_state, spoken, sampled, last_pub, stop_in_counting,
                   trigger>>

\* /control/reset: countdown_state['remaining'] = 0
reset_countdown_remaining ==
    /\ Serving /\ hpc = "reset_remaining"
    /\ countdown_state' = [countdown_state EXCEPT !.remaining = 0]
    /\ hpc' = "idle"
    /\ UNCHANGED <<control_state, stop_event, has_state, once,
                   celebration_duration, target_override, midnight, pc,
                   wait, seconds, target, remaining, last_spoken,
                   easter_egg, start, beat, audio_url, i, pose, audio, exc,
                   h_seconds, response, nreq, unread, acted, armed, elapsed,
                   sub_state, spoken, sampled, last_pub, stop_in_counting,
                   trigger>>

\* int(remaining // 3600) truncating towards zero instead of flooring (not
\* used by get_countdown)
hours_truncated(r) ==
    IF r >= 0 THEN r \div timedelta(3600) ELSE -((-r) \div timedelta(3600))

\* hours = int(remaining // 3600), line 1154: floor division, remaining
\* being counted in half seconds
hours(r) == r \div timedelta(3600)

\* minutes = int((remaining % 3600) // 60), line 1155
minutes(r) == (r % timedelta(3600)) \div timedelta(60)

\* seconds = int(remaining % 60), line 1156
seconds_of(r) == (r % timedelta(60)) \div timedelta(1)

\* /countdown: the answer is built from reads of the two records
get_countdown ==
    /\ Serving /\ hpc = "idle" /\ response = <<>>
    /\ LET r == countdown_state.remaining IN
         response' = [remaining |-> r,
                      formatted |-> <<hours(r), minutes(r), seconds_of(r)>>,
                      target |-> countdown_state.target,
                      running |-> control_state.running]
    /\ UNCHANGED <<control_state, countdown_state, stop_event, has_state,
                   once, celebration_duration, target_override, midnight,
                   pc, wait, seconds, target, remaining, last_spoken,
                   easter_egg, start, beat, audio_url, i, pose, audio, exc,
                   hpc, h_seconds, nreq, unread, acted, armed, elapsed,
                   sub_state, spoken, sampled, last_pub, stop_in_counting,
                   trigger>>

\* 'not url or not isinstance(url, str)', line 1172
InvalidUrl(url) ==
    \/ url.kind = "null"
    \/ url.kind = "str" /\ url.text = ""
    \/ url.kind # "str"

\* the status of the answer of /control/music, lines 1172-1175
set_music_status(url) ==
    IF InvalidUrl(url) THEN 400 ELSE 200

\* set_music storing the payload without the test of line 1172 (not used by
\* Next)
set_music_unchecked(url) ==
    /\ Serving /\ hpc = "idle" /\ nreq < MaxReq
    /\ control_state' = [control_state EXCEPT !.youtube_url = url.text]
    /\ nreq' = nreq + 1
    /\ UNCHANGED <<countdown_state, stop_event, has_state, once,
                   celebration_duration, target_override, midnight, pc,
                   wait, seconds, target, remaining, last_spoken,
                   easter_egg, start, beat, audio_url, i, pose, audio, exc,
                   hpc, h_seconds, response, unread, acted, armed, elapsed,
                   sub_state, spoken, sampled, last_pub, stop_in_counting,
                   trigger>>

\* /control/music: control_state['youtube_url'] = url for a non-empty
\* string, the answer 400 and no write otherwise
set_music(url) ==
    /\ Serving /\ hpc = "idle" /\ nreq < MaxReq
    /\ control_state' = IF InvalidUrl(url) THEN control_state
                        ELSE [control_state EXCEPT !.youtube_url = url.text]
    /\ nreq' = nreq + 1
    /\ UNCHANGED <<countdown_state, stop_event, has_state, once,
                   celebration_duration, target_override, midnight, pc,
                   wait, seconds, target, remaining, last_spoken,
                   easter_egg, start, beat, audio_url, i, pose, audio, exc,
                   hpc, h_seconds, response, unread, acted, armed, elapsed,
                   sub_state, spoken, sampled, last_pub, stop_in_counting,
                   trigger>>

\* the status of the answer of /easter-egg/<secret>, lines 1141-1148
easter_egg_status(secret) ==
    IF lower(secret) \in {"konami", "1337", "secret", "easter"}
    THEN 200 ELSE 404

\* easter_egg_endpoint setting the flag whatever the secret (not used by
\* Next)
easter_egg_endpoint_any_secret(secret) ==
    /\ Serving /\ hpc = "idle"
    /\ control_state' = [control_state EXCEPT !.easter_egg = TRUE]
    /\ trigger' = TRUE
    /\ UNCHANGED <<countdown_state, stop_event, has_state, once,
                   celebration_duration, target_override, midnight, pc,
                   wait, seconds, target, remaining, last_spoken,
                   easter_egg, start, beat, audio_url, i, pose, audio, exc,
                   hpc, h_seconds, response, nreq, unread, acted, armed,
                   elapsed, sub_state, spoken, sampled, last_pub,
                   stop_in_counting>>

\* /easter-egg/<secret>: sets the flag for a right secret, 404 otherwise
easter_egg_endpoint(secret) ==
    /\ Serving /\ hpc = "idle"
    /\ IF lower(secret) \in {"konami", "1337", "secret", "easter"}
       THEN /\ control_state' = [control_state EXCEPT !.easter_egg = TRUE]
            /\ trigger' = TRUE
       ELSE UNCHANGED <<control_state, trigger>>
    /\ UNCHANGED <<countdown_state, stop_event, has_state, once,
                   celebration_duration, target_override, midnight, pc,
                   wait, seconds, target, remaining, last_spoken,
                   easter_egg, start, beat, audio_url, i, pose, audio, exc,
                   hpc, h_seconds, response, nreq, unread, acted, armed,
                   elapsed, sub_state, spoken, sampled, last_pub,
                   stop_in_counting>>

\* the global stop signal is set from outside the Run Loop
set_stop_event ==
    /\ ~stop_event /\ pc \notin EndedPcs
    /\ stop_event' = TRUE
    /\ UNCHANGED <<control_state, countdown_state, has_state, once,
                   celebration_duration, target_override, midnight, pc,
                   wait, seconds, target, remaining, last_spoken,
                   easter_egg, start, beat, audio_url, i, pose, audio, exc,
                   hpc, h_seconds, response, nreq, unread, acted, armed,
                   elapsed, sub_state, spoken, sampled, last_pub,
                   stop_in_counting, trigger>>

\* ------------------------------------------------------------- the Run Loop
\* run, lines 55-94: start-up poses, then the initial wait or the default target
run ==
    /\ pc = "run"
    /\ audio' = "stopped"
    /\ pose' = "head_up"
    /\ Sleep(3)
    /\ last_spoken' = -1
    /\ wait' = "initial"
    /\ IF has_state
       THEN /\ pc' = "await_poll"
            /\ UNCHANGED <<target, armed, elapsed, sub_state, spoken, sampled,
                           last_pub>>
       ELSE /\ target' = IF target_override' # <<>> THEN target_override'[1]
                         ELSE midnight'
            /\ Rearm("launch")
            /\ pc' = "tick"
    /\ UNCHANGED <<control_state, countdown_state, stop_event, has_state,
                   once, celebration_duration, seconds, remaining,
                   easter_egg, start, beat, audio_url, i, exc, hpc,
                   h_seconds, response, nreq, unread, acted,
                   stop_in_counting, trigger>>

\* AwaitingStart: the loop condition and the read of control_state['action']
await_poll ==
    /\ pc = "await_poll"
    /\ IF stop_event
       THEN /\ pc' = "exit"
            /\ UNCHANGED <<unread, acted>>
       ELSE LET action == control_state.action IN
            IF action = "start"
            THEN /\ pc' = "start_seconds"
                 /\ React
            ELSE IF action = "reset" /\ wait # "celebrated"
            THEN /\ pc' = "reset_clear"
                 /\ React
            ELSE /\ pc' = "await_sleep"
                 /\ UNCHANGED <<unread, acted>>
    /\ UNCHANGED <<control_state, countdown_state, stop_event, has_state,
                   once, celebration_duration, target_override, midnight,
                   wait, seconds, target, remaining, last_spoken,
                   easter_egg, start, beat, audio_url, i, pose, audio, exc,
                   hpc, h_seconds, response, nreq, armed, elapsed,
                   sub_state, spoken, sampled, last_pub, stop_in_counting,
                   trigger>>

\* start branch: seconds = control_state.get('seconds'); target = now + seconds;
\* timedelta(seconds=...) raises TypeError for a value that is no number, and
\* nothing in run catches it
await_start_seconds ==
    /\ pc = "start_seconds"
    /\ IF control_state.seconds = NotANumber
       THEN Raise("Exception")
       ELSE /\ seconds' = control_state.seconds
            /\ target' = now + timedelta(seconds')
            /\ pc' = "start_clear"
            /\ UNCHANGED <<exc, control_state, countdown_state,
                           target_override, midnight, wait, remaining,
                           last_spoken, easter_egg, start, beat, audio_url,
                           i, pose,
                           audio, hpc, h_seconds, nreq, unread, acted, armed,
                           elapsed, sub_state, spoken, sampled, last_pub,
                           stop_in_counting, trigger>>
    /\ UNCHANGED <<stop_event, has_state, once, celebration_duration,
                   response>>

\* start branch: control_state['action'] = None
await_start_clear ==
    /\ pc = "start_clear"
    /\ Clear
    /\ pc' = "start_running"
    /\ UNCHANGED <<countdown_state, stop_event, has_state, once,
                   celebration_duration, target_override, midnight, wait,
                   seconds, target, remaining, last_spoken, easter_egg,
                   start, beat, audio_url, i, pose, audio, exc, hpc,
                   h_seconds, response, nreq, unread, acted, armed, elapsed,
                   sub_state, spoken, sampled, last_pub, stop_in_counting,
                   trigger>>

\* await_start_running without the reset of _last_spoken (not used by Next)
await_start_running_keeps_tracker ==
    /\ pc = "start_running"
    /\ control_state' = [control_state EXCEPT !.running = TRUE]
    /\ last_spoken' = last_spoken
    /\ Rearm("start")
    /\ pc' = "tick"
    /\ UNCHANGED <<countdown_state, stop_event, has_state, once,
                   celebration_duration, target_override, midnight, wait,
                   seconds, target, remaining, easter_egg, start, beat,
                   audio_url, i, pose, audio, exc, hpc, h_seconds, response,
                   nreq, unread, acted, stop_in_counting, trigger>>

\* start branch: control_state['running'] = True; _last_spoken = -1; break
await_start_running ==
    /\ pc = "start_running"
    /\ control_state' = [control_state EXCEPT !.running = TRUE]
    /\ last_spoken' = -1
    /\ Rearm("start")
    /\ pc' = "tick"
    /\ UNCHANGED <<countdown_state, stop_event, has_state, once,
                   celebration_duration, target_override, midnight, wait,
                   seconds, target, remaining, easter_egg, start, beat,
                   audio_url, i, pose, audio, exc, hpc, h_seconds, response,
                   nreq, unread, acted, stop_in_counting, trigger>>

\* await_reset_clear without the store of None (not used by Next)
await_reset_clear_missing ==
    /\ pc = "reset_clear"
    /\ pc' = "reset_running"
    /\ UNCHANGED <<control_state, countdown_state, stop_event, has_state,
                   once, celebration_duration, target_override, midnight,
                   wait, seconds, target, remaining, last_spoken,
                   easter_egg, start, beat, audio_url, i, pose, audio, exc,
                   hpc, h_seconds, response, nreq, unread, acted, armed,
                   elapsed, sub_state, spoken, sampled, last_pub,
                   stop_in_counting, trigger>>

\* reset branch of the initial wait and of the wait after a stop
await_reset_clear ==
    /\ pc = "reset_clear"
    /\ Clear
    /\ pc' = "reset_running"
    /\ UNCHANGED <<countdown_state, stop_event, has_state, once,
                   celebration_duration, target_override, midnight, wait,
                   seconds, target, remaining, last_spoken, easter_egg,
                   start, beat, audio_url, i, pose, audio, exc, hpc,
                   h_seconds, response, nreq, unread, acted, armed, elapsed,
                   sub_state, spoken, sampled, last_pub, stop_in_counting,
                   trigger>>

\* reset branch: control_state['running'] = False
await_reset_running ==
    /\ pc = "reset_running"
    /\ control_state' = [control_state EXCEPT !.running = FALSE]
    /\ pc' = "reset_remaining"
    /\ UNCHANGED <<countdown_state, stop_event, has_state, once,
                   celebration_duration, target_override, midnight, wait,
                   seconds, target, remaining, last_spoken, easter_egg,
                   start, beat, audio_url, i, pose, audio, exc, hpc,
                   h_seconds, response, nreq, unread, acted, armed, elapsed,
                   sub_state, spoken, sampled, last_pub, stop_in_counting,
                   trigger>>

\* reset branch: countdown_state['remaining'] = 0; _reset_pose
await_reset_remaining ==
    /\ pc = "reset_remaining"
    /\ countdown_state' = [countdown_state EXCEPT !.remaining = 0]
    /\ pose' = "reset"
    /\ pc' = "await_sleep"
    /\ UNCHANGED <<control_state, stop_event, has_state, once,
                   celebration_duration, target_override, midnight, wait,
                   seconds, target, remaining, last_spoken, easter_egg,
                   start, beat, audio_url, i, audio, exc, hpc, h_seconds,
                   response, nreq, unread, acted, armed, elapsed, sub_state,
                   spoken, sampled, last_pub, stop_in_counting, trigger>>

\* time.sleep(0.5) at the end of a poll
await_sleep ==
    /\ pc = "await_sleep"
    /\ Sleep(1)
    /\ pc' = "await_poll"
    /\ UNCHANGED <<control_state, countdown_state, stop_event, has_state,
                   once, celebration_duration, wait, seconds, target,
                   remaining, last_spoken, easter_egg, start, beat,
                   audio_url, i, pose, audio, exc, hpc, h_seconds, response,
                   nreq, unread, acted, armed, elapsed, sub_state, spoken,
                   sampled, last_pub, stop_in_counting, trigger>>

\* SubState with remaining < 10 for FinalTen (not used by Next)
SubState_strict_ten(r) ==
    IF r <= 0 THEN "celebrate"
    ELSE IF r < timedelta(10) THEN "final_ten"
    ELSE IF r <= timedelta(60) THEN "final_minute"
    ELSE "idle"

\* SubState with remaining < 0 for the celebration (not used by Next)
SubState_strict_zero(r) ==
    IF r < 0 THEN "celebrate"
    ELSE IF r <= timedelta(10) THEN "final_ten"
    ELSE IF r <= timedelta(60) THEN "final_minute"
    ELSE "idle"

\* the branch of a tick, lines 137, 158, 166, 169
SubState(r) ==
    IF r <= 0 THEN "celebrate"
    ELSE IF r <= timedelta(10) THEN "final_ten"
    ELSE IF r <= timedelta(60) THEN "final_minute"
    ELSE "idle"

\* tick with the stop check skipped during FinalTen (not used by Next)
tick_deaf_in_final_ten ==
    /\ pc = "tick"
    /\ IF stop_event
       THEN /\ pc' = "exit"
            /\ UNCHANGED <<unread, acted>>
       ELSE IF has_state /\ control_state.action = "stop"
               /\ sub_state # "final_ten"
       THEN /\ pc' = "stop_clear"
            /\ React
       ELSE /\ pc' = IF has_state THEN "tick_reset" ELSE "compute"
            /\ UNCHANGED <<unread, acted>>
    /\ UNCHANGED <<control_state, countdown_state, stop_event, has_state,
                   once, celebration_duration, target_override, midnight,
                   wait, seconds, target, remaining, last_spoken,
                   easter_egg, start, beat, audio_url, i, pose, audio, exc,
                   hpc, h_seconds, response, nreq, armed, elapsed,
                   sub_state, spoken, sampled, last_pub, stop_in_counting,
                   trigger>>

\* top of the main loop: the loop condition and the stop check, lines 96-99
tick ==
    /\ pc = "tick"
    /\ IF stop_event
       THEN /\ pc' = "exit"
            /\ UNCHANGED <<unread, acted>>
       ELSE IF has_state /\ control_state.action = "stop"
       THEN /\ pc' = "stop_clear"
            /\ React
       ELSE /\ pc' = IF has_state THEN "tick_reset" ELSE "compute"
            /\ UNCHANGED <<unread, acted>>
    /\ UNCHANGED <<control_state, countdown_state, stop_event, has_state,
                   once, celebration_duration, target_override, midnight,
                   wait, seconds, target, remaining, last_spoken,
                   easter_egg, start, beat, audio_url, i, pose, audio, exc,
                   hpc, h_seconds, response, nreq, armed, elapsed,
                   sub_state, spoken, sampled, last_pub, stop_in_counting,
                   trigger>>

\* the second read of control_state['action'], line 122
tick_reset ==
    /\ pc = "tick_reset"
    /\ IF control_state.action = "reset"
       THEN /\ pc' = "rearm_clear"
            /\ React
       ELSE /\ pc' = "compute"
            /\ UNCHANGED <<unread, acted>>
    /\ UNCHANGED <<control_state, countdown_state, stop_event, has_state,
                   once, celebration_duration, target_override, midnight,
                   wait, seconds, target, remaining, last_spoken,
                   easter_egg, start, beat, audio_url, i, pose, audio, exc,
                   hpc, h_seconds, response, nreq, armed, elapsed,
                   sub_state, spoken, sampled, last_pub, stop_in_counting,
                   trigger>>

\* stop: control_state['action'] = None
stop_clear ==
    /\ pc = "stop_clear"
    /\ Clear
    /\ pc' = "stop_running"
    /\ UNCHANGED <<countdown_state, stop_event, has_state, once,
                   celebration_duration, target_override, midnight, wait,
                   seconds, target, remaining, last_spoken, easter_egg,
                   start, beat, audio_url, i, pose, audio, exc, hpc,
                   h_seconds, response, nreq, unread, acted, armed, elapsed,
                   sub_state, spoken, sampled, last_pub, stop_in_counting,
                   trigger>>

\* stop: control_state['running'] = False
stop_running ==
    /\ pc = "stop_running"
    /\ control_state' = [control_state EXCEPT !.running = FALSE]
    /\ pc' = "stop_pose"
    /\ UNCHANGED <<countdown_state, stop_event, has_state, once,
                   celebration_duration, target_override, midnight, wait,
                   seconds, target, remaining, last_spoken, easter_egg,
                   start, beat, audio_url, i, pose, audio, exc, hpc,
                   h_seconds, response, nreq, unread, acted, armed, elapsed,
                   sub_state, spoken, sampled, last_pub, stop_in_counting,
                   trigger>>

\* stop: _reset_pose, then the wait for a new start
stop_pose ==
    /\ pc = "stop_pose"
    /\ pose' = "reset"
    /\ wait' = "stopped"
    /\ Disarm
    /\ pc' = "await_poll"
    /\ UNCHANGED <<control_state, countdown_state, stop_event, has_state,
                   once, celebration_duration, target_override, midnight,
                   seconds, target, remaining, last_spoken, easter_egg,
                   start, beat, audio_url, i, audio, exc, hpc, h_seconds,
                   response, nreq, unread, acted, stop_in_counting, trigger>>

\* reset while counting: control_state['action'] = None
rearm_clear ==
    /\ pc = "rearm_clear"
    /\ Clear
    /\ pc' = "rearm_running"
    /\ UNCHANGED <<countdown_state, stop_event, has_state, once,
                   celebration_duration, target_override, midnight, wait,
                   seconds, target, remaining, last_spoken, easter_egg,
                   start, beat, audio_url, i, pose, audio, exc, hpc,
                   h_seconds, response, nreq, unread, acted, armed, elapsed,
                   sub_state, spoken, sampled, last_pub, stop_in_counting,
                   trigger>>

\* reset while counting: control_state['running'] = False
rearm_running ==
    /\ pc = "rearm_running"
    /\ control_state' = [control_state EXCEPT !.running = FALSE]
    /\ pc' = "rearm_remaining"
    /\ UNCHANGED <<countdown_state, stop_event, has_state, once,
                   celebration_duration, target_override, midnight, wait,
                   seconds, target, remaining, last_spoken, easter_egg,
                   start, beat, audio_url, i, pose, audio, exc, hpc,
                   h_seconds, response, nreq, unread, acted, armed, elapsed,
                   sub_state, spoken, sampled, last_pub, stop_in_counting,
                   trigger>>

\* reset while counting: remaining = 0, _reset_pose, target = now + 30 s
rearm_remaining ==
    /\ pc = "rearm_remaining"
    /\ countdown_state' = [countdown_state EXCEPT !.remaining = 0]
    /\ pose' = "reset"
    /\ target' = now + timedelta(30)
    /\ Rearm("reset")
    /\ pc' = "tick"
    /\ UNCHANGED <<control_state, stop_event, has_state, once,
                   celebration_duration, target_override, midnight, wait,
                   seconds, remaining, last_spoken, easter_egg, start, beat,
                   audio_url, i, audio, exc, hpc, h_seconds, response, nreq,
                   unread, acted, stop_in_counting, trigger>>

\* remaining = target - now, published to countdown_state, lines 130-134
compute ==
    /\ pc = "compute"
    /\ remaining' = target - now
    /\ IF has_state
       THEN /\ countdown_state' = [countdown_state EXCEPT
                                       !.remaining = remaining']
            /\ last_pub' = <<remaining'>>
       ELSE UNCHANGED <<countdown_state, last_pub>>
    /\ pc' = "publish"
    /\ UNCHANGED <<control_state, stop_event, has_state, once,
                   celebration_duration, target_override, midnight, wait,
                   seconds, target, last_spoken, easter_egg, start, beat,
                   audio_url, i, pose, audio, exc, hpc, h_seconds, response,
                   nreq, unread, acted, armed, elapsed, sub_state, spoken,
                   sampled, stop_in_counting, trigger>>

\* publish branching on the remaining read back from the shared record
\* instead of the local of line 130 (not used by Next)
publish_reads_back ==
    /\ pc = "publish"
    /\ IF has_state
       THEN countdown_state' = [countdown_state EXCEPT !.target = str(target)]
       ELSE UNCHANGED countdown_state
    /\ sub_state' = SubState(IF has_state THEN countdown_state.remaining
                             ELSE remaining)
    /\ pc' = sub_state'
    /\ UNCHANGED <<control_state, stop_event, has_state, once,
                   celebration_duration, target_override, midnight, wait,
                   seconds, target, remaining, last_spoken, easter_egg,
                   start, beat, audio_url, i, pose, audio, exc, hpc,
                   h_seconds, response, nreq, unread, acted, armed, elapsed,
                   spoken, sampled, last_pub, stop_in_counting, trigger>>

\* countdown_state['target'] = str(target), then the branch on remaining
publish ==
    /\ pc = "publish"
    /\ IF has_state
       THEN countdown_state' = [countdown_state EXCEPT !.target = str(target)]
       ELSE UNCHANGED countdown_state
    /\ sub_state' = SubState(remaining)
    /\ pc' = SubState(remaining)
    /\ UNCHANGED <<control_state, stop_event, has_state, once,
                   celebration_duration, target_override, midnight, wait,
                   seconds, target, remaining, last_spoken, easter_egg,
                   start, beat, audio_url, i, pose, audio, exc, hpc,
                   h_seconds, response, nreq, unread, acted, armed, elapsed,
                   spoken, sampled, last_pub, stop_in_counting, trigger>>

\* Announces without the last-spoken guard, as in the older src/main.py
\* (not used by Next)
Announces_unguarded(countdown_number) ==
    countdown_number > 0

\* the guard of line 161
Announces(countdown_number) ==
    countdown_number > 0 /\ countdown_number # last_spoken

\* final_ten sleeping a whole second after a tick that announced a number and
\* a tenth otherwise, as in the older src/main.py (not used by Next)
final_ten_sleeps_after_announcing ==
    /\ pc = "final_ten"
    /\ LET countdown_number == int(remaining) IN
         /\ sampled' = sampled \cup ({countdown_number} \cap (1..10))
         /\ IF Announces(countdown_number)
            THEN /\ last_spoken' = countdown_number
                 /\ spoken' = [spoken EXCEPT ![countdown_number] =
                                   IF @ < 2 THEN @ + 1 ELSE @]
                 /\ pose' = "flip"
                 /\ audio' = "speak"
                 /\ TickSleep(2)
            ELSE /\ UNCHANGED <<last_spoken, spoken, pose, audio>>
                 /\ TickSleep(0)
    /\ pc' = "tick"
    /\ UNCHANGED <<control_state, countdown_state, stop_event, has_state,
                   once, celebration_duration, wait, seconds, remaining,
                   easter_egg, start, beat, audio_url, i, exc, hpc,
                   h_seconds, response, nreq, unread, acted, armed,
                   sub_state, last_pub, stop_in_counting, trigger>>

\* FinalTen, lines 159-165
final_ten ==
    /\ pc = "final_ten"
    /\ LET countdown_number == int(remaining) IN
         /\ sampled' = sampled \cup ({countdown_number} \cap (1..10))
         /\ IF Announces(countdown_number)
            THEN /\ last_spoken' = countdown_number
                 /\ spoken' = [spoken EXCEPT ![countdown_number] =
                                   IF @ < 2 THEN @ + 1 ELSE @]
                 /\ pose' = "flip"
                 /\ audio' = "speak"
            ELSE UNCHANGED <<last_spoken, spoken, pose, audio>>
    /\ TickSleep(0)
    /\ pc' = "tick"
    /\ UNCHANGED <<control_state, countdown_state, stop_event, has_state,
                   once, celebration_duration, wait, seconds, remaining,
                   easter_egg, start, beat, audio_url, i, exc, hpc,
                   h_seconds, response, nreq, unread, acted, armed,
                   sub_state, last_pub, stop_in_counting, trigger>>

\* Flourishes on every multiple of five (not used by Next)
Flourishes_every_five(seconds_remaining) ==
    seconds_remaining % 5 = 0 /\ seconds_remaining > 0

\* the flourish test of _final_minute, line 209
Flourishes(seconds_remaining) ==
    seconds_remaining % 10 = 0 /\ seconds_remaining > 0

\* the interval speech test of _final_minute, lines 214-215
SpeaksInterval == has_state /\ control_state.speak_intervals

\* FinalMinute, lines 167-168 and _final_minute: the antenna and head poses,
\* on a multiple of ten the flourish and, when speak_intervals is set, the
\* announcement of line 216, then the sleep of one second
final_minute ==
    /\ pc = "final_minute"
    /\ LET seconds_remaining == int(remaining) IN
         IF Flourishes(seconds_remaining)
         THEN /\ pose' = "flourish"
              /\ audio' = IF SpeaksInterval THEN "speak" ELSE audio
         ELSE /\ pose' = "final_minute"
              /\ audio' = audio
    /\ TickSleep(2)
    /\ pc' = "tick"
    /\ UNCHANGED <<control_state, countdown_state, stop_event, has_state,
                   once, celebration_duration, wait, seconds, remaining,
                   last_spoken, easter_egg, start, beat, audio_url, i, exc,
                   hpc, h_seconds, response, nreq, unread, acted, armed,
                   sub_state, spoken, sampled, last_pub, stop_in_counting,
                   trigger>>

\* Idle, lines 170-174
idle ==
    /\ pc = "idle"
    /\ pose' = "idle"
    /\ TickSleep(10)
    /\ pc' = "tick"
    /\ UNCHANGED <<control_state, countdown_state, stop_event, has_state,
                   once, celebration_duration, wait, seconds, remaining,
                   last_spoken, easter_egg, start, beat, audio_url, i,
                   audio, exc, hpc, h_seconds, response, nreq, unread,
                   acted, armed, sub_state, spoken, sampled, last_pub,
                   stop_in_counting, trigger>>

\* _celebrate, lines 457-482: the read of the easter egg flag and, for the
\* normal variant, the choice of the music URL (lines 474-476) and the start
\* of the audio thread
celebrate ==
    /\ pc = "celebrate"
    /\ easter_egg' = (has_state /\ control_state.easter_egg)
    /\ trigger' = FALSE
    /\ i' = 0
    /\ IF easter_egg'
       THEN /\ pc' = "egg_spin"
            /\ UNCHANGED <<audio, audio_url>>
       ELSE /\ pc' = "spin"
            /\ audio_url' = IF has_state /\ control_state.youtube_url # ""
                            THEN control_state.youtube_url
                            ELSE AULD_LANG_SYNE_URL
            /\ audio' = "playing"
    /\ UNCHANGED <<control_state, countdown_state, stop_event, has_state,
                   once, celebration_duration, target_override, midnight,
                   wait, seconds, target, remaining, last_spoken, start,
                   beat, pose, exc, hpc, h_seconds, response, nreq, unread,
                   acted, armed, elapsed, sub_state, spoken, sampled,
                   last_pub, stop_in_counting>>

\* _easter_egg_celebration, lines 554-568: five spins; a pose command that
\* raises is caught (ok = FALSE) and the loop goes on
egg_spin ==
    /\ pc = "egg_spin"
    /\ IF i < 5
       THEN IF stop_event
            THEN /\ pc' = "egg_clear"
                 /\ UNCHANGED <<i, pose, target_override, midnight>>
            ELSE \E ok \in BOOLEAN :
                 /\ pose' = IF ok THEN "egg_spin" ELSE pose
                 /\ i' = i + 1
                 /\ Elapse(IF ok THEN 2 ELSE 1)
                 /\ pc' = "egg_spin"
       ELSE /\ i' = 0
            /\ pc' = "egg_pose"
            /\ UNCHANGED <<pose, target_override, midnight>>
    /\ UNCHANGED <<control_state, countdown_state, stop_event, has_state,
                   once, celebration_duration, wait, seconds, target,
                   remaining, last_spoken, easter_egg, start, beat,
                   audio_url, audio, exc, hpc, h_seconds, response, nreq,
                   unread, acted, armed, elapsed, sub_state, spoken,
                   sampled, last_pub, stop_in_counting, trigger>>

\* _easter_egg_celebration, lines 571-585: three poses, failures caught
egg_pose ==
    /\ pc = "egg_pose"
    /\ IF i < 3 /\ ~stop_event
       THEN \E ok \in BOOLEAN :
            /\ pose' = IF ok THEN "egg_pose" ELSE pose
            /\ i' = i + 1
            /\ Elapse(IF ok THEN 2 ELSE 1)
            /\ pc' = "egg_pose"
       ELSE /\ pc' = "egg_clear"
            /\ UNCHANGED <<i, pose, target_override, midnight>>
    /\ UNCHANGED <<control_state, countdown_state, stop_event, has_state,
                   once, celebration_duration, wait, seconds, target,
                   remaining, last_spoken, easter_egg, start, beat,
                   audio_url, audio, exc, hpc, h_seconds, response, nreq,
                   unread, acted, armed, elapsed, sub_state, spoken,
                   sampled, last_pub, stop_in_counting, trigger>>

\* _celebrate, lines 465-467: control_state['easter_egg'] = False; return
egg_clear ==
    /\ pc = "egg_clear"
    /\ IF has_state
       THEN control_state' = [control_state EXCEPT !.easter_egg = FALSE]
       ELSE UNCHANGED control_state
    /\ pc' = "celebrated"
    /\ UNCHANGED <<countdown_state, stop_event, has_state, once,
                   celebration_duration, target_override, midnight, wait,
                   seconds, target, remaining, last_spoken, easter_egg,
                   start, beat, audio_url, i, pose, audio, exc, hpc,
                   h_seconds, response, nreq, unread, acted, armed, elapsed,
                   sub_state, spoken, sampled, last_pub, stop_in_counting,
                   trigger>>

\* _celebrate, lines 485-498: three spins, left at once on the stop signal;
\* a pose command that raises is caught, 0.2 s of sleep and the next spin
spin ==
    /\ pc = "spin"
    /\ IF i < 3
       THEN IF stop_event
            THEN /\ pc' = "celebrated"
                 /\ UNCHANGED <<i, pose, target_override, midnight>>
            ELSE \E ok \in BOOLEAN :
                 /\ pose' = IF ok THEN "spin" ELSE pose
                 /\ i' = i + 1
                 /\ Elapse(IF ok THEN 3 ELSE 1)
                 /\ pc' = "spin"
       ELSE /\ pc' = "victory"
            /\ UNCHANGED <<i, pose, target_override, midnight>>
    /\ UNCHANGED <<control_state, countdown_state, stop_event, has_state,
                   once, celebration_duration, wait, seconds, target,
                   remaining, last_spoken, easter_egg, start, beat,
                   audio_url, audio, exc, hpc, h_seconds, response, nreq,
                   unread, acted, armed, elapsed, sub_state, spoken,
                   sampled, last_pub, stop_in_counting, trigger>>

\* _celebrate, lines 501-508: victory pose, start = time.time(), beat = 0
victory ==
    /\ pc = "victory"
    /\ pose' = "victory"
    /\ Elapse(2)
    /\ start' = now
    /\ beat' = 0
    /\ pc' = "beat"
    /\ UNCHANGED <<control_state, countdown_state, stop_event, has_state,
                   once, celebration_duration, wait, seconds, target,
                   remaining, last_spoken, easter_egg, audio_url, i, audio,
                   exc, hpc, h_seconds, response, nreq, unread, acted,
                   armed, elapsed, sub_state, spoken, sampled, last_pub,
                   stop_in_counting, trigger>>

\* dance_beat without the test of the stop signal of lines 511-512 (not used
\* by Next)
dance_beat_ignores_stop ==
    /\ pc = "beat"
    /\ IF now - start < timedelta(celebration_duration)
       THEN \E ok \in BOOLEAN :
            /\ beat' = beat + 1
            /\ pose' = IF ~ok THEN pose
                       ELSE IF beat' % 5 = 0 THEN "big_move" ELSE "dance"
            /\ start' = Age(start, IF ok THEN 2 ELSE 1)
            /\ Elapse(IF ok THEN 2 ELSE 1)
            /\ pc' = "beat"
       ELSE /\ pc' = "stop_audio"
            /\ UNCHANGED <<pose, start, beat, target_override, midnight>>
    /\ UNCHANGED <<control_state, countdown_state, stop_event, has_state,
                   once, celebration_duration, wait, seconds, target,
                   remaining, last_spoken, easter_egg, audio_url, i, audio,
                   exc, hpc, h_seconds, response, nreq, unread, acted,
                   armed, elapsed, sub_state, spoken, sampled, last_pub,
                   stop_in_counting, trigger>>

\* _celebrate, lines 510-540: one pass of the dance loop; the dance move and
\* the big move of every fifth beat are each inside a try
dance_beat ==
    /\ pc = "beat"
    /\ IF now - start < timedelta(celebration_duration)
       THEN IF stop_event
            THEN /\ pc' = "celebrated"
                 /\ UNCHANGED <<pose, start, beat, target_override, midnight>>
            ELSE \E ok \in BOOLEAN :
                 /\ beat' = beat + 1
                 /\ pose' = IF ~ok THEN pose
                            ELSE IF beat' % 5 = 0 THEN "big_move" ELSE "dance"
                 /\ start' = Age(start, IF ok THEN 2 ELSE 1)
                 /\ Elapse(IF ok THEN 2 ELSE 1)
                 /\ pc' = "beat"
       ELSE /\ pc' = "stop_audio"
            /\ UNCHANGED <<pose, start, beat, target_override, midnight>>
    /\ UNCHANGED <<control_state, countdown_state, stop_event, has_state,
                   once, celebration_duration, wait, seconds, target,
                   remaining, last_spoken, easter_egg, audio_url, i, audio,
                   exc, hpc, h_seconds, response, nreq, unread, acted,
                   armed, elapsed, sub_state, spoken, sampled, last_pub,
                   stop_in_counting, trigger>>

\* _celebrate, lines 542-547: the audio is stopped
stop_audio ==
    /\ pc = "stop_audio"
    /\ audio' = "stopped"
    /\ pc' = "celebrated"
    /\ UNCHANGED <<control_state, countdown_state, stop_event, has_state,
                   once, celebration_duration, target_override, midnight,
                   wait, seconds, target, remaining, last_spoken,
                   easter_egg, start, beat, audio_url, i, pose, exc, hpc,
                   h_seconds, response, nreq, unread, acted, armed, elapsed,
                   sub_state, spoken, sampled, last_pub, stop_in_counting,
                   trigger>>

\* celebrated without the wait of lines 142-156: the loop goes on to its next
\* tick with the target it had (not used by Next)
celebrated_without_wait ==
    /\ pc = "celebrated"
    /\ easter_egg' = FALSE /\ start' = 0 /\ beat' = 0 /\ i' = 0
    /\ audio_url' = ""
    /\ IF once
       THEN /\ pc' = "exit"
            /\ UNCHANGED <<wait, control_state, target, armed, elapsed,
                           sub_state, spoken, sampled, last_pub>>
       ELSE IF has_state
       THEN /\ control_state' = [control_state EXCEPT !.running = FALSE]
            /\ pc' = "tick"
            /\ UNCHANGED <<wait, target, armed, elapsed, sub_state, spoken,
                           sampled, last_pub>>
       ELSE /\ target' = IF target_override = <<>> THEN NextMidnight
                         ELSE target_override[1]
            /\ Rearm("launch")
            /\ pc' = "tick"
            /\ UNCHANGED <<wait, control_state>>
    /\ UNCHANGED <<countdown_state, stop_event, has_state, once,
                   celebration_duration, target_override, midnight, seconds,
                   remaining, last_spoken, pose, audio, exc, hpc, h_seconds,
                   response, nreq, unread, acted, stop_in_counting, trigger>>

\* celebrated without the break of lines 139-140 when a Control State is
\* present (not used by Next)
celebrated_without_break ==
    /\ pc = "celebrated"
    /\ easter_egg' = FALSE /\ start' = 0 /\ beat' = 0 /\ i' = 0
    /\ audio_url' = ""
    /\ IF once /\ ~has_state
       THEN /\ pc' = "exit"
            /\ UNCHANGED <<wait, control_state, target, armed, elapsed,
                           sub_state, spoken, sampled, last_pub>>
       ELSE IF has_state
       THEN /\ control_state' = [control_state EXCEPT !.running = FALSE]
            /\ wait' = "celebrated"
            /\ Disarm
            /\ pc' = "await_poll"
            /\ UNCHANGED target
       ELSE /\ target' = IF target_override = <<>> THEN NextMidnight
                         ELSE target_override[1]
            /\ Rearm("launch")
            /\ pc' = "tick"
            /\ UNCHANGED <<wait, control_state>>
    /\ UNCHANGED <<countdown_state, stop_event, has_state, once,
                   celebration_duration, target_override, midnight, seconds,
                   remaining, last_spoken, pose, audio, exc, hpc, h_seconds,
                   response, nreq, unread, acted, stop_in_counting, trigger>>

\* back in run, lines 139-157: what follows the celebration (the locals of
\* _celebrate are gone)
celebrated ==
    /\ pc = "celebrated"
    /\ easter_egg' = FALSE /\ start' = 0 /\ beat' = 0 /\ i' = 0
    /\ audio_url' = ""
    /\ IF once
       THEN /\ pc' = "exit"
            /\ UNCHANGED <<wait, control_state, target, armed, elapsed,
                           sub_state, spoken, sampled, last_pub>>
       ELSE IF has_state
       THEN /\ control_state' = [control_state EXCEPT !.running = FALSE]
            /\ wait' = "celebrated"
            /\ Disarm
            /\ pc' = "await_poll"
            /\ UNCHANGED target
       ELSE /\ target' = IF target_override = <<>> THEN NextMidnight
                         ELSE target_override[1]
            /\ Rearm("launch")
            /\ pc' = "tick"
            /\ UNCHANGED <<wait, control_state>>
    /\ UNCHANGED <<countdown_state, stop_event, has_state, once,
                   celebration_duration, target_override, midnight, seconds,
                   remaining, last_spoken, pose, audio, exc, hpc, h_seconds,
                   response, nreq, unread, acted, stop_in_counting, trigger>>

\* line 176: the final _reset_pose, then run returns
exit ==
    /\ pc = "exit"
    /\ pose' = "reset"
    /\ pc' = "done"
    /\ UNCHANGED <<control_state, countdown_state, stop_event, has_state,
                   once, celebration_duration, target_override, midnight,
                   wait, seconds, target, remaining, last_spoken,
                   easter_egg, start, beat, audio_url, i, audio, exc, hpc,
                   h_seconds, response, nreq, unread, acted, armed, elapsed,
                   sub_state, spoken, sampled, last_pub, stop_in_counting,
                   trigger>>

\* ------------------------------------------------- main and its exceptions
\* main, lines 1338-1383: the robot session is opened, the application
\* object built, the dashboard thread started, and run is called
main_session ==
    /\ pc = "main"
    /\ pc' = "run"
    /\ UNCHANGED <<control_state, countdown_state, stop_event, has_state,
                   once, celebration_duration, target_override, midnight,
                   wait, seconds, target, remaining, last_spoken,
                   easter_egg, start, beat, audio_url, i, pose, audio, exc,
                   hpc, h_seconds, response, nreq, unread, acted, armed,
                   elapsed, sub_state, spoken, sampled, last_pub,
                   stop_in_counting, trigger>>

\* positions whose step sends a command to the Pose Sink outside any try:
\* the start-up poses (64-69), _reset_pose of the reset and stop handling
\* (89, 103, 119, 126) and of line 176, _final_minute (167), the Idle sway
\* (172-173), the victory pose of _celebrate (501-503)
UncaughtPcs == {"run", "reset_remaining", "stop_pose", "rearm_remaining",
                "final_minute", "idle", "victory", "exit"}

\* an exception raised while connecting (line 1342), or by a pose command
\* that nothing between the call and main catches
raises ==
    /\ pc \in UncaughtPcs \cup {"main"}
    /\ Raise("Exception")
    /\ UNCHANGED <<stop_event, has_state, once, celebration_duration,
                   response>>

\* Ctrl-C in the main thread, which runs main and run; no except clause of
\* run or _celebrate catches KeyboardInterrupt
keyboard_interrupt ==
    /\ has_state
    /\ pc \notin EndedPcs
    /\ Raise("KeyboardInterrupt")
    /\ UNCHANGED <<stop_event, has_state, once, celebration_duration,
                   response>>

\* main_except with a keyboard interrupt clause that leaves the stop signal
\* alone (not used by Next)
main_except_keeps_running ==
    /\ pc = "main_except"
    /\ stop_event' = (stop_event \/ exc = "Exception")
    /\ pc' = IF exc = "KeyboardInterrupt" THEN "interrupted" ELSE "raised"
    /\ UNCHANGED <<control_state, countdown_state, has_state, once,
                   celebration_duration, target_override, midnight, wait,
                   seconds, target, remaining, last_spoken, easter_egg,
                   start, beat, audio_url, i, pose, audio, exc, hpc,
                   h_seconds, response, nreq, unread, acted, armed, elapsed,
                   sub_state, spoken, sampled, last_pub, stop_in_counting,
                   trigger>>

\* main, lines 1384-1389: the two except clauses; both set the stop signal,
\* the second re-raises
main_except ==
    /\ pc = "main_except"
    /\ stop_event' = TRUE
    /\ pc' = IF exc = "KeyboardInterrupt" THEN "interrupted" ELSE "raised"
    /\ UNCHANGED <<control_state, countdown_state, has_state, once,
                   celebration_duration, target_override, midnight, wait,
                   seconds, target, remaining, last_spoken, easter_egg,
                   start, beat, audio_url, i, pose, audio, exc, hpc,
                   h_seconds, response, nreq, unread, acted, armed, elapsed,
                   sub_state, spoken, sampled, last_pub, stop_in_counting,
                   trigger>>

\* --------------------------------------------------------- the specification
Next ==
    \/ \E s \in PayloadChoices : start_countdown(s)
    \/ start_countdown_seconds
    \/ start_countdown_running
    \/ stop_countdown
    \/ stop_countdown_running
    \/ reset_countdown
    \/ \E enabled \in BOOLEAN : set_speak_intervals(enabled)
    \/ \E url \in UrlChoices : set_music(url)
    \/ reset_countdown_running
    \/ reset_countdown_remaining
    \/ \E secret \in SecretChoices : easter_egg_endpoint(secret)
    \/ set_stop_event
    \/ main_session
    \/ raises
    \/ keyboard_interrupt
    \/ main_except
    \/ run
    \/ await_poll
    \/ await_start_seconds
    \/ await_start_clear
    \/ await_start_running
    \/ await_reset_clear
    \/ await_reset_running
    \/ await_reset_remaining
    \/ await_sleep
    \/ tick
    \/ tick_reset
    \/ stop_clear
    \/ stop_running
    \/ stop_pose
    \/ rearm_clear
    \/ rearm_running
    \/ rearm_remaining
    \/ compute
    \/ publish
    \/ final_ten
    \/ final_minute
    \/ idle
    \/ celebrate
    \/ egg_spin
    \/ egg_pose
    \/ egg_clear
    \/ spin
    \/ victory
    \/ dance_beat
    \/ stop_audio
    \/ celebrated
    \/ exit

Spec == Init /\ [][Next]_vars

\* ------------------------------------- a countdown in progress, as a start
\* the seconds of the start request that armed the countdown in progress
CountingSeconds == {3}

\* the state in which the Run Loop, launched by main, has just consumed a
\* start request in its initial wait (lines 76-84): it is a state of Spec,
\* from which MaxReq further requests are followed
InitCounting ==
    /\ \E s \in CountingSeconds :
         /\ control_state = [action |-> "None", seconds |-> s,
                             running |-> TRUE, easter_egg |-> FALSE,
                             speak_intervals |-> FALSE,
                             youtube_url |-> AULD_LANG_SYNE_URL]
         /\ seconds = s
         /\ target = now + timedelta(s)
    /\ countdown_state = [remaining |-> 0, target |-> <<>>]
    /\ stop_event = FALSE
    /\ has_state = TRUE
    /\ once = FALSE
    /\ celebration_duration = 0
    /\ target_override = <<>>
    /\ midnight = Day
    /\ pc = "tick"
    /\ wait = "initial"
    /\ remaining = 0
    /\ last_spoken = -1
    /\ easter_egg = FALSE
    /\ start = 0
    /\ beat = 0
    /\ audio_url = ""
    /\ i = 0
    /\ pose = "head_up"
    /\ audio = "stopped"
    /\ exc = "none"
    /\ hpc = "idle"
    /\ h_seconds = 0
    /\ response = <<>>
    /\ nreq = 0
    /\ unread = FALSE
    /\ acted = TRUE
    /\ armed = "start"
    /\ elapsed = 0
    /\ sub_state = "none"
    /\ spoken = NoCount
    /\ sampled = {}
    /\ last_pub = <<>>
    /\ stop_in_counting = FALSE
    /\ trigger = FALSE

\* the steps that can follow: every step of Next but the launch
NextCounting ==
    \/ \E s \in PayloadChoices : start_countdown(s)
    \/ start_countdown_seconds
    \/ start_countdown_running
    \/ stop_countdown
    \/ stop_countdown_running
    \/ reset_countdown
    \/ \E enabled \in BOOLEAN : set_speak_intervals(enabled)
    \/ \E url \in UrlChoices : set_music(url)
    \/ reset_countdown_running
    \/ reset_countdown_remaining
    \/ \E secret \in SecretChoices : easter_egg_endpoint(secret)
    \/ set_stop_event
    \/ raises
    \/ keyboard_interrupt
    \/ main_except
    \/ await_poll
    \/ await_start_seconds
    \/ await_start_clear
    \/ await_start_running
    \/ await_reset_clear
    \/ await_reset_running
    \/ await_reset_remaining
    \/ await_sleep
    \/ tick
    \/ tick_reset
    \/ stop_clear
    \/ stop_running
    \/ stop_pose
    \/ rearm_clear
    \/ rearm_running
    \/ rearm_remaining
    \/ compute
    \/ publish
    \/ final_ten
    \/ final_minute
    \/ idle
    \/ celebrate
    \/ egg_spin
    \/ egg_pose
    \/ egg_clear
    \/ spin
    \/ victory
    \/ dance_beat
    \/ stop_audio
    \/ celebrated
    \/ exit

SpecCounting == InitCounting /\ [][NextCounting]_vars

\* ------------------------------------------------- the read endpoint alone
\* whole seconds of remaining time that the read endpoint is asked about
MaxRemaining == 3700
RemainingChoices == (-MaxRemaining)..MaxRemaining

\* the Run Loop, launched by main, waits for a start with r seconds published
\* as the remaining time: for r > 0 a start of r seconds was consumed, its
\* first tick published r and slept, and the next tick consumed a stop
\* (lines 99-105); for r <= 0 the first tick of a start of r seconds
\* published r and celebrated (lines 136-145, no dance beats)
ReadState(r) ==
    /\ control_state = [action |-> "None", seconds |-> r, running |-> FALSE,
                        easter_egg |-> FALSE, speak_intervals |-> FALSE,
                        youtube_url |-> AULD_LANG_SYNE_URL]
    /\ countdown_state = [remaining |-> timedelta(r),
                          target |-> <<"datetime", timedelta(r)>>]
    /\ stop_event = FALSE
    /\ has_state = TRUE
    /\ once = FALSE
    /\ celebration_duration = 0
    /\ target_override = <<>>
    /\ midnight = Day
    /\ pc = "await_poll"
    /\ wait = (IF r > 0 THEN "stopped" ELSE "celebrated")
    /\ seconds = r
    /\ target = timedelta(r) - (IF r > 60 THEN 10 ELSE IF r > 10 THEN 2 ELSE 0)
    /\ remaining = timedelta(r)
    /\ last_spoken = (IF r > 0 /\ r <= 10 THEN r ELSE -1)
    /\ easter_egg = FALSE
    /\ start = 0
    /\ beat = 0
    /\ audio_url = ""
    /\ i = 0
    /\ pose = (IF r > 0 THEN "reset" ELSE "victory")
    /\ audio = (IF r > 0 /\ r <= 10 THEN "speak" ELSE "stopped")
    /\ exc = "none"
    /\ hpc = "idle"
    /\ h_seconds = 0
    /\ response = <<>>
    /\ nreq = (IF r > 0 THEN 2 ELSE 1)
    /\ unread = FALSE
    /\ acted = TRUE
    /\ armed = "none"
    /\ elapsed = 0
    /\ sub_state = "none"
    /\ spoken = NoCount
    /\ sampled = {}
    /\ last_pub = <<>>
    /\ stop_in_counting = (r > 0)
    /\ trigger = FALSE

InitRead == \E r \in RemainingChoices : ReadState(r)

\* the read endpoint is called
NextRead == get_countdown

SpecRead == InitRead /\ [][NextRead]_vars


\* ------------------------------------------------------------------ claims
\* the Run Loop takes a step that ends without an exception
RunLoopStep == pc' # pc /\ exc' = exc

C3_ClearOnlyWhatWasRead ==
    [][(control_state.action # "None" /\ control_state'.action = "None")
           => ~unread]_vars

\* C4: the Run Loop never takes the branch of an action value it has already
\* acted on.
C4_ReadOnce ==
    [][(pc \in {"await_poll", "tick", "tick_reset"} /\ pc' \in HandlingPcs)
           => ~acted]_vars

\* the Run Loop polls again after it has acted on a reset
C4_Witness ==
    /\ pc = "await_poll" /\ wait = "initial"
    /\ acted /\ pose = "reset"
    /\ control_state.action = "None"

C7_Thresholds ==
    [][(pc = "publish" /\ RunLoopStep)
           => /\ remaining = target - now
              /\ remaining > 120 => pc' = "idle"
              /\ (20 < remaining /\ remaining <= 120) => pc' = "final_minute"
              /\ (0 < remaining /\ remaining <= 20) => pc' = "final_ten"
              /\ remaining <= 0 => pc' = "celebrate"]_vars

\* a tick at exactly 10 s that follows a FinalMinute tick acts in FinalTen
C7_Witness ==
    /\ pc = "final_ten" /\ remaining = 20
    /\ elapsed > 0 /\ armed = "start" /\ seconds = 12

\* C8: a countdown armed by a start with seconds <= 0 computes remaining <= 0
\* on its first tick and celebrates on it, with no FinalTen, FinalMinute or
\* Idle tick and no spoken side effect.
C8_PastStartCelebrates ==
    (armed = "start" /\ seconds <= 0)
        => /\ pc \notin {"final_ten", "final_minute", "idle"}
           /\ sub_state \in {"none", "celebrate"}
           /\ pc = "publish" => remaining <= 0
           /\ spoken = NoCount /\ sampled = {}

\* the celebration of a countdown started with seconds = -5
C8_Witness ==
    /\ pc = "celebrate" /\ armed = "start" /\ seconds = -5
    /\ sub_state = "celebrate" /\ elapsed = 0

\* C9: a celebration that begins after the trigger has fired, with no other
\* celebration begun in between, runs the alternate choreography.
C9_NextCelebrationAlternate ==
    [][(pc = "celebrate" /\ RunLoopStep /\ trigger) => pc' = "egg_spin"]_vars

\* positions at which the Run Loop is not in the middle of handling an action
QuietPcs == (CountingPcs \cup AwaitingPcs \cup {"done"}) \ HandlingPcs

\* C10: when no handler is in flight, the Run Loop has read the latest write
\* to the mailbox and finished handling it and nothing is pending, running is
\* true exactly when the Run Loop is in Counting.
C10_RunningMirrorsCounting ==
    (has_state /\ ~stop_event /\ hpc = "idle" /\ ~unread
         /\ control_state.action = "None" /\ pc \in QuietPcs)
        => (control_state.running <=> pc \in CountingPcs)

\* C11, as the spec states it: apart from action every field has one writer,
\* so remaining, target and running change only in steps of the Run Loop and
\* never in a step of a handler.
C11_SingleWriter ==
    [][(exc' = exc /\ (countdown_state' # countdown_state
                       \/ control_state'.running # control_state.running))
       => hpc' = hpc]_vars

C13_ResetConsumedInEveryWait ==
    [][(pc = "await_poll" /\ RunLoopStep /\ ~stop_event
        /\ control_state.action = "reset")
       => pc' = "reset_clear"]_vars

\* C14: a reset read at the top of a Counting tick is cleared, and its
\* handling ends with target = now + 30 s, whatever seconds armed the
\* countdown, and with the Run Loop at the top of the next Counting tick;
\* that tick, if it reads no action, publishes a remaining of 30 s.
C14_ResetRearmsThirty ==
    [][/\ (pc = "tick_reset" /\ RunLoopStep /\ control_state.action = "reset")
          => pc' = "rearm_clear"
       /\ (pc = "rearm_clear" /\ RunLoopStep)
          => /\ control_state'.action = "None"
             /\ pc' = "rearm_running"
       /\ (pc = "rearm_remaining" /\ pc' # pc /\ exc' # "KeyboardInterrupt")
          => /\ target' = now + timedelta(30)
             /\ pc' = "tick"
       /\ (pc = "compute" /\ RunLoopStep /\ armed = "reset" /\ elapsed = 0)
          => /\ remaining' = timedelta(30)
             /\ has_state => countdown_state'.remaining = timedelta(30)]_vars

\* C15: when a celebration returns in run-once mode the Run Loop leaves its
\* loop without touching the Control State and ends with the final reset
\* pose command (returning when that command returns); without run-once and
\* with a Control State it sets running = false and waits in AwaitingStart,
\* a wait it leaves only by consuming a start or on the stop signal.
C15_AfterCelebration ==
    [][/\ (pc = "celebrated" /\ RunLoopStep /\ once)
          => /\ pc' = "exit"
             /\ control_state' = control_state
       /\ (pc = "exit" /\ pc' # pc /\ exc' # "KeyboardInterrupt")
          => \/ /\ pc' = "done" /\ pose' = "reset"
                /\ control_state' = control_state
             \/ exc' = "Exception"
       /\ (pc = "celebrated" /\ RunLoopStep /\ ~once /\ has_state)
          => /\ control_state' = [control_state EXCEPT !.running = FALSE]
             /\ pc' = "await_poll"
             /\ wait' = "celebrated"
       /\ (wait = "celebrated" /\ pc \in AwaitingPcs /\ RunLoopStep
              /\ pc' \notin AwaitingPcs)
          => \/ pc = "start_running" /\ pc' = "tick"
             \/ stop_event /\ pc' = "exit"]_vars

\* run has returned after a run-once celebration, with no stop signal and
\* with a start still pending in the mailbox
C15_Witness ==
    /\ pc = "done" /\ once /\ has_state /\ ~stop_event
    /\ pose = "reset"
    /\ control_state.action = "start"

\* C16, as the spec states it: whichever way the celebration ends, when
\* _celebrate has returned to the Run Loop the last command the Audio Sink
\* received is a stop.
C16_AudioStoppedOnReturn ==
    pc = "celebrated" => audio = "stopped"

\* C17, as the spec states it: no pose command of the celebration ends it
\* or the Run Loop: no step taken inside _celebrate leaves it with an
\* exception, a keyboard interrupt apart.
C17_CelebrationPoseFailuresCaught ==
    [][(pc \in CelebratingPcs \cup {"celebrate"} /\ exc' # exc)
       => exc' = "KeyboardInterrupt"]_vars

\* C18, as the spec states it: no pose command outside the celebration ends
\* the Run Loop: no step of run outside _celebrate leaves it with an
\* exception, a keyboard interrupt apart.
C18_PoseFailuresNonFatal ==
    [][(pc \notin CelebratingPcs \cup {"celebrate", "main"} /\ exc' # exc)
       => exc' = "KeyboardInterrupt"]_vars

\* C19, its safety half: once the stop signal is set and the Run Loop is
\* past its start-up, the only way it ends (a keyboard interrupt apart) is
\* the return that follows the final reset pose.
C19_StopSignalEndsInReset ==
    [][(stop_event /\ pc \notin EndedPcs \cup {"main", "run"}
        /\ pc' \in EndedPcs /\ exc' # "KeyboardInterrupt")
       => (pc = "exit" /\ pc' = "done" /\ pose' = "reset")]_vars

\* C20: under main every exception raised while connecting or inside the
\* robot session reaches main's except clauses; they set the stop signal,
\* re-raise anything but a keyboard interrupt and return after a keyboard
\* interrupt; when nothing is raised main goes on to the Run Loop.
C20_MainExceptions ==
    [][/\ (has_state /\ exc' # exc) => pc' = "main_except"
       /\ (pc = "main_except" /\ pc' # pc)
          => /\ stop_event'
             /\ exc = "Exception" => pc' = "raised"
             /\ exc = "KeyboardInterrupt" => pc' = "interrupted"
       /\ (pc = "main" /\ pc' # pc /\ exc' = exc) => pc' = "run"]_vars

\* an exception other than a keyboard interrupt has left main, with the stop
\* signal set
C20_Witness ==
    /\ has_state /\ pc = "raised"
    /\ exc = "Exception" /\ stop_event

\* C21, as the spec states it: a Run Loop launched with a target (from
\* --test-seconds or --target) is counting down toward it when its start-up
\* ends, with no start action consumed.
C21_TargetCountsFromLaunch ==
    [][(pc = "run" /\ RunLoopStep /\ target_override # <<>>)
       => (pc' = "tick" /\ armed' = "launch")]_vars

\* C22, as the spec states it: when the Run Loop reads seconds for a start
\* it has just read, and that start is the request whose handler is still
\* between its write of action and its write of seconds, the target is the
\* present plus the seconds of that request.
C22_SecondsOfConsumedStart ==
    [][(pc = "start_seconds" /\ RunLoopStep
        /\ hpc = "start_seconds" /\ ~unread)
       => target' = now + timedelta(h_seconds)]_vars

\* C23, as the spec states it: in a countdown re-armed by a reset every
\* integer of 1..10 that a FinalTen tick has sampled has been announced
\* once.
C23_RearmedAnnouncesEverySample ==
    armed = "reset" => \A n \in sampled : spoken[n] = 1

\* C24, as the spec states it: the flag set by a trigger stays true until a
\* celebration begins after the trigger: as long as no celebration has read
\* the flag since the last trigger, the flag is true.
C24_TriggerKept ==
    (trigger /\ ~stop_event) => control_state.easter_egg

\* the records and the mailbox bookkeeping
Mailbox == <<control_state, countdown_state, unread, acted>>

\* C25, as the spec states it, in its clause on the reaction: an action that
\* the handlers have written, once or twice, and that is still unread gets
\* its one reaction when the Run Loop next reads the mailbox.
C25_OneReaction ==
    [][(pc \in {"await_poll", "tick"} /\ RunLoopStep /\ ~stop_event
        /\ has_state /\ unread /\ hpc = "idle"
        /\ control_state.action # "None")
       => pc' \in HandlingPcs \cup {"tick_reset"}]_vars

\* C25, amended: a handler call that finds the records as an identical call
\* left them, its action still unread, changes nothing in either record with
\* any of its writes, so that the Run Loop finds what one call would have
\* left; and the Run Loop reacts to the mailbox only while a write is unread,
\* which its reaction ends: two identical calls cause the reaction of one
\* call, which is one reaction or none.
C25_RepeatedActionIdempotent ==
    [][/\ (hpc = "idle" /\ hpc' = "start_seconds" /\ unread
              /\ control_state.action = "start"
              /\ control_state.seconds = h_seconds'
              /\ control_state.running)
          => UNCHANGED Mailbox
       /\ (hpc = "start_seconds" /\ hpc' = "start_running"
              /\ control_state.seconds = h_seconds)
          => UNCHANGED Mailbox
       /\ (hpc = "start_running" /\ hpc' = "idle" /\ exc' = exc
              /\ control_state.running)
          => UNCHANGED Mailbox
       /\ (hpc = "idle" /\ hpc' = "stop_running" /\ unread
              /\ control_state.action = "stop" /\ ~control_state.running)
          => UNCHANGED Mailbox
       /\ (hpc = "stop_running" /\ hpc' = "idle" /\ exc' = exc
              /\ ~control_state.running)
          => UNCHANGED Mailbox
       /\ (hpc = "idle" /\ hpc' = "reset_running" /\ unread
              /\ control_state.action = "reset" /\ ~control_state.running
              /\ countdown_state.remaining = 0)
          => UNCHANGED Mailbox
       /\ (hpc = "reset_running" /\ hpc' = "reset_remaining"
              /\ ~control_state.running)
          => UNCHANGED Mailbox
       /\ (hpc = "reset_remaining" /\ hpc' = "idle" /\ exc' = exc
              /\ countdown_state.remaining = 0)
          => UNCHANGED Mailbox
       /\ (pc \in {"await_poll", "tick", "tick_reset"} /\ pc' \in HandlingPcs)
          => (unread /\ ~unread' /\ acted')]_vars

\* the second of two start requests for 3 s has written action, before any
\* step of the Run Loop: the records already hold what the first left
C25_Witness ==
    /\ pc = "run" /\ nreq = 2
    /\ hpc = "start_seconds" /\ h_seconds = 3
    /\ control_state.action = "start" /\ control_state.seconds = 3
    /\ control_state.running
    /\ unread /\ ~acted

\* C26: no step that the Run Loop takes in Counting or Celebrating removes
\* a start that is in the mailbox, and the reads at the top of a tick that
\* find it leave target and the last-spoken tracker as they are.
C26_StartLeftPending ==
    [][(pc \in CountingPcs \cup CelebratingPcs \cup {"stop_clear", "celebrate"}
        /\ RunLoopStep /\ control_state.action = "start")
       => /\ control_state'.action = "start"
          /\ pc \in {"tick", "tick_reset"}
             => (UNCHANGED <<target, last_spoken>>
                 /\ pc' \in {"tick_reset", "compute", "exit"})]_vars

\* C27: the celebration is entered only by the branch of a tick that has
\* just computed remaining <= 0 for an armed countdown; with the Control
\* State the Run Loop goes from a celebration to the AwaitingStart wait or
\* to its exit, and it enters Counting only by consuming a start, a reset
\* consumed in Counting re-arming without leaving it.
C27_CelebrationNeedsArming ==
    [][/\ (pc # "celebrate" /\ pc' = "celebrate")
          => /\ pc = "publish"
             /\ remaining = target - now /\ remaining <= 0
             /\ armed # "none" /\ elapsed' = elapsed
       /\ (pc = "celebrated" /\ RunLoopStep /\ has_state)
          => pc' \in {"await_poll", "exit"}
       /\ (has_state /\ pc \notin CountingPcs /\ pc' \in CountingPcs)
          => /\ pc = "start_running"
             /\ target' = now + timedelta(seconds)]_vars

\* a second celebration begins, for the countdown armed by the start that
\* was consumed in the wait after the first
C27_Witness ==
    /\ pc = "celebrate" /\ has_state
    /\ wait = "celebrated" /\ armed = "start"
    /\ acted /\ nreq = 2

\* C28: a FinalMinute tick issues the antenna flourish exactly when its
\* integer seconds_remaining is a positive multiple of 10; on such a tick it
\* issues the spoken announcement if and only if speak_intervals is true,
\* and on no other FinalMinute tick; and the tick that follows a FinalMinute
\* tick of the same countdown sees a smaller integer second, so that (the
\* remaining time never growing within a countdown) no integer second
\* triggers the flourish on two ticks
C28_FlourishOnTens ==
    [][/\ (pc = "final_minute" /\ RunLoopStep) =>
            LET tens == \E k \in 1..6 : int(remaining) = 10 * k
                says == has_state /\ control_state.speak_intervals IN
              /\ (pose' = "flourish") <=> tens
              /\ (tens /\ says) => audio' = "speak"
              /\ ~(tens /\ says) => audio' = audio
       /\ (pc = "compute" /\ RunLoopStep /\ sub_state = "final_minute") =>
            int(remaining') < int(remaining)]_vars

\* a countdown of 12 s reached 10 s in FinalMinute with speak_intervals set:
\* the flourish and the announcement were issued
C28_Witness ==
    /\ pc = "tick" /\ sub_state = "final_minute" /\ armed = "start"
    /\ int(remaining) = 10 /\ control_state.speak_intervals
    /\ pose = "flourish" /\ audio = "speak"

CelebrationRank ==
    CASE pc = "celebrate" -> 40
      [] pc = "spin" -> 30 + (3 - i)
      [] pc = "victory" -> 29
      [] pc = "egg_spin" -> 20 + (5 - i)
      [] pc = "egg_pose" -> 14 + (3 - i)
      [] pc = "beat" -> 6 + (IF now - start < timedelta(celebration_duration)
                             THEN timedelta(celebration_duration)
                                  - (now - start)
                             ELSE 0)
      [] pc \in {"egg_clear", "stop_audio"} -> 5
      [] pc = "celebrated" -> 1
      [] OTHER -> 0

\* C30: every step the Run Loop takes inside a celebration brings it closer
\* to its end (the rank is a natural number and decreases), so a celebration
\* whose Sink calls return ends; a dance beat is issued only while the
\* elapsed time is below the configured duration and the stop signal is
\* unset, hence none for a duration of 0; and the alternate variant leaves
\* its spin loop after exactly 5 iterations and its pose loop after exactly
\* 3, whatever the configured duration, unless the stop signal ends it
C30_CelebrationTerminates ==
    [][/\ (pc \in CelebratingPcs \cup {"celebrate"} /\ exc' = exc
           /\ <<pc, i, beat>>' # <<pc, i, beat>>)
          => (CelebrationRank' < CelebrationRank /\ CelebrationRank' >= 0)
       /\ (pc = "beat" /\ beat' # beat /\ exc' = exc)
          => /\ now - start < timedelta(celebration_duration)
             /\ ~stop_event
             /\ celebration_duration # 0
             /\ beat' = beat + 1
       /\ (pc = "egg_spin" /\ pc' = "egg_pose") => i = 5
       /\ (pc = "egg_spin" /\ pc' = "egg_clear") => (stop_event /\ i < 5)
       /\ (pc = "egg_pose" /\ pc' = "egg_clear") => (i = 3 \/ stop_event)
       /\ (pc \in {"egg_spin", "egg_pose"} /\ i' # i /\ exc' = exc
           /\ pc' = pc)
          => (i' = i + 1 /\ ~stop_event)]_vars

\* the dance loop of a normal celebration has ended by the configured
\* duration, after at least one beat and with the stop signal unset
C30_Witness ==
    /\ pc = "stop_audio" /\ beat >= 1 /\ ~stop_event
    /\ celebration_duration = 1 /\ ~easter_egg
    /\ ~(now - start < timedelta(celebration_duration))

\* C31: without the Control State and without run-once, the step that
\* follows a completed celebration re-arms a target strictly in the future,
\* so that the next tick does not celebrate again, with or without a target
\* override
C31_RearmsFutureTarget ==
    [][(pc = "celebrated" /\ RunLoopStep /\ ~has_state /\ ~once
        /\ ~stop_event)
       => (pc' = "tick" /\ target' > now)]_vars

\* C32: the Run Loop survives a start whose seconds payload is no number:
\* the step that reads such a payload raises nothing and leaves the Run Loop
\* polling in AwaitingStart with no countdown armed
C32_BadSecondsSurvived ==
    [][(pc = "start_seconds" /\ pc' # pc /\ exc' # "KeyboardInterrupt"
        /\ control_state.seconds = NotANumber)
       => (exc' = "none" /\ pc' \in AwaitingPcs /\ armed' = "none")]_vars

\* the secrets tried that are right when compared case-insensitively
RightSecrets == {"konami", "KONAMI", "1337", "secret", "easter"}

\* C33: a request to the easter-egg endpoint with a right secret, in either
\* case, answers 200 and sets easter_egg; with any other secret it answers
\* 404 and leaves the Control State as it is; in both cases action,
\* running, seconds, speak_intervals and the Countdown State are unchanged
C33_EasterEggEndpoint ==
    [][\A secret \in SecretChoices :
          easter_egg_endpoint(secret)
          => /\ IF secret \in RightSecrets
                THEN /\ easter_egg_status(secret) = 200
                     /\ control_state' =
                            [control_state EXCEPT !.easter_egg = TRUE]
                ELSE /\ easter_egg_status(secret) = 404
                     /\ control_state' = control_state
             /\ countdown_state' = countdown_state]_vars

\* the flag was set by the endpoint while a countdown is in progress, and
\* the countdown's records are as the Run Loop left them
C33_Witness ==
    /\ control_state.easter_egg /\ trigger
    /\ pc = "final_ten" /\ control_state.running
    /\ control_state.action = "None" /\ control_state.seconds = 3
    /\ countdown_state.remaining = remaining

\* C34: a request to the music endpoint stores its URL in youtube_url and
\* answers 200 when the payload is a non-empty string; for any other payload
\* it answers 400 and leaves youtube_url and every other field of both
\* records unchanged; and a normal celebration plays youtube_url when the
\* Control State holds a non-empty one, the built-in default URL otherwise
C34_MusicEndpoint ==
    [][/\ \A url \in UrlChoices :
             set_music(url)
             => /\ IF url.kind = "str" /\ url.text # ""
                   THEN /\ set_music_status(url) = 200
                        /\ control_state' =
                               [control_state EXCEPT !.youtube_url = url.text]
                   ELSE /\ set_music_status(url) = 400
                        /\ control_state' = control_state
                /\ countdown_state' = countdown_state
       /\ (pc = "celebrate" /\ pc' = "spin")
          => audio_url' = IF has_state /\ control_state.youtube_url # ""
                          THEN control_state.youtube_url
                          ELSE AULD_LANG_SYNE_URL]_vars

\* a normal celebration plays the URL that the music endpoint stored
C34_Witness ==
    /\ pc = "spin" /\ audio = "playing"
    /\ audio_url = "https://youtu.be/custom"
    /\ control_state.youtube_url = audio_url

\* C35: for every whole number of seconds r published as the remaining
\* time, negative ones included, the hours, minutes and seconds of the
\* answer of the read endpoint add up to r, with minutes and seconds in
\* 0..59, and the call leaves both shared records as they are
C35_FormattedAddsUp ==
    [][response' # response
       => /\ LET r == countdown_state.remaining
                 h == response'.formatted[1]
                 m == response'.formatted[2]
                 s == response'.formatted[3] IN
               /\ timedelta(h * 3600 + m * 60 + s) = r
               /\ 0 <= m /\ m < 60
               /\ 0 <= s /\ s < 60
          /\ response'.remaining = countdown_state.remaining
          /\ UNCHANGED <<control_state, countdown_state>>]_vars

\* the read endpoint answered for more than an hour of negative remaining
\* time
C35_Witness ==
    /\ response # <<>>
    /\ response.remaining = timedelta(-3601)
    /\ response.formatted = <<-2, 59, 59>>

====
